---- MODULE Spec2Model ----
(***************************************************************************)
(* Model of the mvc4kivy scaffolding tool: create_project, add_view and    *)
(* remove_view acting on one project directory, and the screen registry    *)
(* View/screens.py they maintain.  Text is modelled as sequences of        *)
(* one-character strings so that tokenizing, lower-casing and joining are  *)
(* computed as the code computes them.                                     *)
(***************************************************************************)
EXTENDS Integers, Sequences, FiniteSets, TLC

VARIABLES
    projectExists,    \* os.path.exists(path_to_project)
    viewDirs,         \* names of the directories under <project>/View
    modelFiles,       \* Model/<module>.py      : module name -> screen name it was written for
    controllerFiles,  \* Controller/<module>.py : module name -> screen name it was written for
    screensPy,        \* View/screens.py: [exists, comment, imports, body]
    projectFiles,     \* kv: name written in View/<screen>/<module>.kv, main: the key main.py
                      \* loads first, database: the database*.py files of Model
    last,             \* outcome of the last command line invocation
    call,             \* the last evaluation of a name function: [fn, arg, tokens, ok, module, key]
    shorten           \* the running call of libs.shorten_text: [pc, text, suffix, measure,
                      \* lbl_width, new_text, t, result]

vars == <<projectExists, viewDirs, modelFiles, controllerFiles, screensPy, projectFiles,
          last, call, shorten>>

tree == <<projectExists, viewDirs, modelFiles, controllerFiles, screensPy, projectFiles>>

----------------------------------------------------------------------------
(* Bounds of the model *)

MaxCreate == 2        \* number of --name_screen values given to create_project
MaxResponsive == 1    \* number of --use_responsive values given to create_project
MaxImportLines == 9   \* addScreen is not explored once screens.py holds this many import lines

----------------------------------------------------------------------------
(* Text *)

ScreenWord == <<"S", "c", "r", "e", "e", "n">>
ModelWord == <<"M", "o", "d", "e", "l">>
ControllerWord == <<"C", "o", "n", "t", "r", "o", "l", "l", "e", "r">>
ViewWord == <<"V", "i", "e", "w">>
ScreensPyName == <<"s", "c", "r", "e", "e", "n", "s", ".", "p", "y">>
BaseScreenPyName == <<"b", "a", "s", "e", "_", "s", "c", "r", "e", "e", "n", ".", "p", "y">>

\* The characters [A-Z] that occur in the modelled texts.
UpperCase == {"A", "B", "C", "L", "M", "P", "S", "U", "V"}

\* str.lower() on one character.
LowerChar(c) ==
    CASE c = "A" -> "a"
      [] c = "B" -> "b"
      [] c = "C" -> "c"
      [] c = "L" -> "l"
      [] c = "M" -> "m"
      [] c = "P" -> "p"
      [] c = "S" -> "s"
      [] c = "U" -> "u"
      [] c = "V" -> "v"
      [] OTHER -> c

\* str.lower()
Lower(s) == [i \in 1..Len(s) |-> LowerChar(s[i])]

\* sep.join(parts)
RECURSIVE Join(_, _)
Join(parts, sep) ==
    IF parts = <<>> THEN <<>>
    ELSE IF Len(parts) = 1 THEN parts[1]
    ELSE parts[1] \o sep \o Join(Tail(parts), sep)

\* s.replace(old, new) for a one-character old and new
Replace(s, old, new) == [i \in 1..Len(s) |-> IF s[i] = old THEN new ELSE s[i]]

\* s[-6:]
LastSix(s) == IF Len(s) <= 6 THEN s ELSE SubSeq(s, Len(s) - 5, Len(s))

\* re.findall(r"[A-Z][^A-Z]*", s): acc holds the tokens matched so far
RECURSIVE ReFindallTokens(_, _)
ReFindallTokens(s, acc) ==
    IF s = <<>> THEN acc
    ELSE IF Head(s) \in UpperCase
         THEN ReFindallTokens(Tail(s), Append(acc, <<Head(s)>>))
    ELSE IF acc = <<>>
         THEN ReFindallTokens(Tail(s), acc)
    ELSE ReFindallTokens(Tail(s), [acc EXCEPT ![Len(acc)] = Append(@, Head(s))])

\* splitting before every upper-case letter, which keeps what precedes the first
TokenizeSplit(s) ==
    IF s # <<>> /\ Head(s) \in UpperCase THEN ReFindallTokens(s, <<>>)
    ELSE ReFindallTokens(s, << <<>> >>)

Tokenize(s) == ReFindallTokens(s, <<>>)

\* check_camel_case_name_project without the single-token rejection
CheckCamelNeverFalse(name_project) ==
    [isList |-> TRUE, list |-> Tokenize(name_project)]

\* check_camel_case_name_project: False when exactly one token, else the list
check_camel_case_name_project(name_project) ==
    LET result == Tokenize(name_project)
    IN  IF Len(result) = 1 THEN [isList |-> FALSE, list |-> <<>>]
        ELSE [isList |-> TRUE, list |-> result]

\* Python truthiness of the value returned above (`if not module_name`)
Truthy(r) == r.isList /\ r.list # <<>>

\* the module name without the trailing token
ModuleNameWithoutScreen(tokens) ==
    Join([i \in 1..(Len(tokens) - 1) |-> Lower(tokens[i])], <<"_">>)

\* "_".join([name.lower() for name in module_name])
ModuleNameOf(tokens) == Join([i \in 1..Len(tokens) |-> Lower(tokens[i])], <<"_">>)

\* the key without the trailing token
ScanKeyOfStem(res) == Lower(Join(SubSeq(res, 1, Len(res) - 1), <<" ">>))

\* ' '.join(res).lower()
ScanKey(res) == Lower(Join(res, <<" ">>))

\* " ".join(module_name.split("_"))
CreateKey(module_name) == Replace(module_name, "_", " ")

\* posixpath.join("./View", name, f"{module}.kv")
KvPath(name, module) ==
    <<".", "/">> \o ViewWord \o <<"/">> \o name \o <<"/">> \o module \o <<".", "k", "v">>

----------------------------------------------------------------------------
(* Names given on the command line *)

Names ==
    { <<"A">> \o ScreenWord,             \* AScreen
      <<"A", "B">> \o ScreenWord,        \* ABScreen
      <<"a", "A">> \o ScreenWord,        \* aAScreen
      ScreenWord,                        \* Screen
      <<"A">> \o ScreenWord \o <<"s">>,  \* AScreens
      <<"a">> }                          \* a

----------------------------------------------------------------------------
(* View/screens.py *)

NoFile == [exists |-> FALSE, comment |-> 0, imports |-> <<>>, body |-> <<>>]

\* the three import lines in the order View, Model, Controller
ImportLinesViewFirst(module_name, name_view) ==
    << [pkg |-> ViewWord, path |-> name_view \o <<".">> \o module_name,
        cls |-> name_view \o ViewWord],
       [pkg |-> ModelWord, path |-> module_name, cls |-> name_view \o ModelWord],
       [pkg |-> ControllerWord, path |-> module_name, cls |-> name_view \o ControllerWord] >>

\* The three import lines of one screen, in the order Model, Controller, View
ImportLinesOf(module_name, name_view) ==
    << [pkg |-> ModelWord, path |-> module_name, cls |-> name_view \o ModelWord],
       [pkg |-> ControllerWord, path |-> module_name, cls |-> name_view \o ControllerWord],
       [pkg |-> ViewWord, path |-> name_view \o <<".">> \o module_name,
        cls |-> name_view \o ViewWord] >>

EndsWith(s, w) == Len(s) >= Len(w) /\ SubSeq(s, Len(s) - Len(w) + 1, Len(s)) = w

\* "from Model.*Model|from Controller.*Controller|from View.*View" matches the line
MatchesImportRe(line) ==
    /\ line.pkg \in {ModelWord, ControllerWord, ViewWord}
    /\ EndsWith(line.cls, line.pkg)

\* one line of screns_comment / screens_comment at the head of the file
CommentLine == [pkg |-> <<"#">>, path |-> <<>>, cls |-> <<>>]

\* the lines of View/screens.py above the `screens = {` dictionary
FileLines(file) == [i \in 1..file.comment |-> CommentLine] \o file.imports

\* every line above the dictionary, as splitting the text into lines would give
ReFindallAllLines(file) == FileLines(file)

\* re.findall(<the pattern above>, screen_module)
ReFindallImports(file) == SelectSeq(FileLines(file), MatchesImportRe)

\* imports.insert(0, screns_comment)
InsertComment(imports) == <<CommentLine>> \o imports

\* number of comment lines that lines starts with
RECURSIVE LeadingComments(_)
LeadingComments(lines) ==
    IF lines = <<>> \/ Head(lines) # CommentLine THEN 0
    ELSE 1 + LeadingComments(Tail(lines))

\* screen_module.write(screens_data % ("\n".join(imports), screens))
WriteScreens(lines, screens) ==
    [exists |-> TRUE,
     comment |-> LeadingComments(lines),
     imports |-> SubSeq(lines, LeadingComments(lines) + 1, Len(lines)),
     body |-> screens]

\* list.remove(x) when x is in the list: drops the first occurrence
ListRemove(s, x) ==
    LET i == CHOOSE k \in 1..Len(s) : s[k] = x /\ \A j \in 1..(k - 1) : s[j] # x
    IN  SubSeq(s, 1, i - 1) \o SubSeq(s, i + 1, Len(s))

InList(s, x) == \E k \in 1..Len(s) : s[k] = x

\* the filter with the older condition `len(res) == 2`
ScanAcceptsTwoTokens(res) == res # <<>> /\ Len(res) = 2 /\ res[Len(res)] = ScreenWord

\* the filter without the test of the last token
ScanAcceptsAnyLastToken(res) == res # <<>> /\ Len(res) > 1

\* `if res and len(res) > 1 and res[-1] == "Screen"` for a directory entry
ScanAccepts(res) == res # <<>> /\ Len(res) > 1 /\ res[Len(res)] = ScreenWord

\* the entry update_screens_data emits for the directory `name`
ScanEntry(name) ==
    LET res == Tokenize(name)
    IN  [key |-> ScanKey(res),
         model |-> name \o ModelWord,
         controller |-> name \o ControllerWord,
         view |-> name \o ViewWord,
         kv |-> KvPath(name, Lower(Join(res, <<"_">>)))]

\* the loop over os.listdir(path_to_view); listing is a sequence of [name, isdir]
RECURSIVE ScanBody(_)
ScanBody(listing) ==
    IF listing = <<>> THEN <<>>
    ELSE LET e == Head(listing)
         IN  IF e.isdir /\ ScanAccepts(Tokenize(e.name))
             THEN <<ScanEntry(e.name)>> \o ScanBody(Tail(listing))
             ELSE ScanBody(Tail(listing))

\* update_screens_data that extends the body it reads instead of scanning View
AddUpdateScreensDataPatch(file, listing, name_view, module_name) ==
    IF ~file.exists
    THEN [ok |-> FALSE, file |-> file]
    ELSE [ok |-> TRUE,
          file |-> [exists |-> TRUE,
                    comment |-> 1,
                    imports |-> ReFindallImports(file) \o ImportLinesOf(module_name, name_view),
                    body |-> file.body \o <<ScanEntry(name_view)>>]]

\* add_view.update_screens_data
AddUpdateScreensData(file, listing, name_view, module_name) ==
    IF ~file.exists
    THEN [ok |-> FALSE, file |-> file]
    ELSE LET imports == ReFindallImports(file)
             screens == ScanBody(listing)
         IN  [ok |-> TRUE,
              file |-> WriteScreens(
                           InsertComment(imports \o ImportLinesOf(module_name, name_view)),
                           screens)]

\* list.remove(x) that ignores an absent x
ListDiscard(s, x) ==
    IF \E k \in 1..Len(s) : s[k] = x
    THEN LET i == CHOOSE k \in 1..Len(s) : s[k] = x /\ \A j \in 1..(k - 1) : s[j] # x
         IN  SubSeq(s, 1, i - 1) \o SubSeq(s, i + 1, Len(s))
    ELSE s

\* remove_view.update_screens_data that skips the import lines it does not find
RemoveUpdateScreensDataLenient(file, listing, name_view, module_name) ==
    IF ~file.exists
    THEN [ok |-> FALSE, file |-> file]
    ELSE LET lines == ImportLinesOf(module_name, name_view)
         IN  [ok |-> TRUE,
              file |-> [exists |-> TRUE,
                        comment |-> 1,
                        imports |-> ListDiscard(ListDiscard(ListDiscard(
                                        SelectSeq(file.imports,
                                                  LAMBDA l : Len(l.cls) >= Len(l.pkg)
                                                      /\ SubSeq(l.cls, Len(l.cls) - Len(l.pkg) + 1,
                                                                Len(l.cls)) = l.pkg),
                                        lines[1]), lines[2]), lines[3]),
                        body |-> ScanBody(listing)]]

\* remove_view.update_screens_data
RemoveUpdateScreensData(file, listing, name_view, module_name) ==
    IF ~file.exists
    THEN [ok |-> FALSE, file |-> file]
    ELSE LET imports == ReFindallImports(file)
             screens == ScanBody(listing)
             lines == ImportLinesOf(module_name, name_view)
         IN  IF ~InList(imports, lines[1])
             THEN [ok |-> FALSE, file |-> file]
             ELSE LET i1 == ListRemove(imports, lines[1])
                  IN  IF ~InList(i1, lines[2])
                      THEN [ok |-> FALSE, file |-> file]
                      ELSE LET i2 == ListRemove(i1, lines[2])
                           IN  IF ~InList(i2, lines[3])
                               THEN [ok |-> FALSE, file |-> file]
                               ELSE [ok |-> TRUE,
                                     file |-> WriteScreens(
                                                  InsertComment(ListRemove(i2, lines[3])),
                                                  screens)]

----------------------------------------------------------------------------
(* The project directory *)

\* screens.py and base_screen.py are written together by create_project
ViewFiles(file) == IF file.exists THEN {ScreensPyName, BaseScreenPyName} ELSE {}

\* the View directory exists once something has been created in it
ViewExists(dirs, file) == dirs # {} \/ file.exists

\* entries of os.listdir(<project>/View), each with os.path.isdir of it
ViewEntries(dirs, file) ==
    {[name |-> d, isdir |-> TRUE] : d \in dirs}
        \cup {[name |-> f, isdir |-> FALSE] : f \in ViewFiles(file)}

ViewNames(dirs, file) == dirs \cup ViewFiles(file)

\* os.listdir returns the entries in arbitrary order
RECURSIVE Orderings(_)
Orderings(S) ==
    IF S = {} THEN {<<>>}
    ELSE UNION {{<<x>> \o o : o \in Orderings(S \ {x})} : x \in S}

\* open(f"{module}.py", "w").write(...) in create_model / create_controller
WriteModule(files, module_name, name_screen) ==
    [m \in DOMAIN files \cup {module_name} |->
        IF m = module_name THEN name_screen ELSE files[m]]

\* the name: property create_view writes into <module>.kv
KvNameOf(module_name) == Replace(module_name, "_", " ")

\* open(f"{view_module}.kv", "w").write(...) at the end of create_view
WriteKv(kv, name_screen, module_name) ==
    [d \in DOMAIN kv \cup {name_screen} |->
        IF d = name_screen THEN KvNameOf(module_name) ELSE kv[d]]

\* nothing at the project path
NoProjectFiles == [kv |-> [d \in {} |-> <<>>], main |-> <<>>, database |-> {}]

Outcome(op, name, status, error, mutated, resynced, before) ==
    [op |-> op, name |-> name, names |-> <<>>, database |-> "no", status |-> status,
     error |-> error, mutated |-> mutated, resynced |-> resynced, before |-> before]

Result(pe, vd, mf, cf, sp, pf, out) ==
    [projectExists |-> pe, viewDirs |-> vd, modelFiles |-> mf,
     controllerFiles |-> cf, screensPy |-> sp, projectFiles |-> pf, last |-> out]

\* a result that leaves the tree t as it is
Unchanged(t, out) ==
    Result(t.projectExists, t.viewDirs, t.modelFiles, t.controllerFiles, t.screensPy,
           t.projectFiles, out)

Tree == [projectExists |-> projectExists, viewDirs |-> viewDirs,
         modelFiles |-> modelFiles, controllerFiles |-> controllerFiles,
         screensPy |-> screensPy, projectFiles |-> projectFiles]

BodySet(file) == {file.body[i] : i \in 1..Len(file.body)}

----------------------------------------------------------------------------
(* add_view.main *)

\* the checks of add_view.main with the camel case check left for later
AddValidateNoCamel(t, name_view) ==
    IF ~t.projectExists THEN "ProjectNotFound"
    ELSE IF LastSix(name_view) # ScreenWord THEN "Naming"
    ELSE IF ~ViewExists(t.viewDirs, t.screensPy) THEN "ListdirFailed"
    ELSE IF name_view \in ViewNames(t.viewDirs, t.screensPy) THEN "Duplicate"
    ELSE "ok"

\* "yes" if "database.py" in os.listdir(<project>/Model) else "no"
InferDatabase(files) == IF "database.py" \in files THEN "yes" ELSE "no"

\* the checks of add_view.main, in the order of the code
AddValidate(t, name_view) ==
    IF ~t.projectExists THEN "ProjectNotFound"
    ELSE IF LastSix(name_view) # ScreenWord THEN "Naming"
    ELSE IF ~ViewExists(t.viewDirs, t.screensPy) THEN "ListdirFailed"
    ELSE IF name_view \in ViewNames(t.viewDirs, t.screensPy) THEN "Duplicate"
    ELSE IF ~Truthy(check_camel_case_name_project(name_view)) THEN "Naming"
    ELSE "ok"

\* add_view.main on the tree t; listing is what os.listdir(View) returns to
\* update_screens_data
AddMain(t, name_view, use_responsive, listing) ==
    LET v == AddValidate(t, name_view)
    IN  IF v = "ListdirFailed"
        THEN Unchanged(t, Outcome("add", name_view, "crashed", v, FALSE, FALSE, {}))
        ELSE IF v # "ok"
        THEN Unchanged(t, Outcome("add", name_view, "aborted", v, FALSE, FALSE, {}))
        ELSE LET name_database == InferDatabase(t.projectFiles.database)
                 module_name == ModuleNameOf(check_camel_case_name_project(name_view).list)
                 models == WriteModule(t.modelFiles, module_name, name_view)
                 ctrls == WriteModule(t.controllerFiles, module_name, name_view)
                 dirs == t.viewDirs \cup {name_view}
                 files == [t.projectFiles EXCEPT
                              !.kv = WriteKv(@, name_view, module_name)]
                 upd == AddUpdateScreensData(t.screensPy, listing, name_view, module_name)
             IN  IF upd.ok
                 THEN Result(TRUE, dirs, models, ctrls, upd.file, files,
                             [Outcome("add", name_view, "done", "none", TRUE, TRUE,
                                      BodySet(t.screensPy))
                                EXCEPT !.database = name_database])
                 ELSE Result(TRUE, dirs, models, ctrls, t.screensPy, files,
                             [Outcome("add", name_view, "crashed", "NoRegistry",
                                      TRUE, FALSE, {})
                                EXCEPT !.database = name_database])

----------------------------------------------------------------------------
(* remove_view.main *)

\* the checks of remove_view.main without the lookup of the name under View
RemoveValidateNoLookup(t, name_view) ==
    IF ~t.projectExists THEN "ProjectNotFound"
    ELSE IF LastSix(name_view) # ScreenWord THEN "Naming"
    ELSE IF ~ViewExists(t.viewDirs, t.screensPy) THEN "ListdirFailed"
    ELSE IF ~Truthy(check_camel_case_name_project(name_view)) THEN "Naming"
    ELSE "ok"

\* the checks of remove_view.main, in the order of the code
RemoveValidate(t, name_view) ==
    IF ~t.projectExists THEN "ProjectNotFound"
    ELSE IF LastSix(name_view) # ScreenWord THEN "Naming"
    ELSE IF ~ViewExists(t.viewDirs, t.screensPy) THEN "ListdirFailed"
    ELSE IF name_view \notin ViewNames(t.viewDirs, t.screensPy) THEN "NotFound"
    ELSE IF ~Truthy(check_camel_case_name_project(name_view)) THEN "Naming"
    ELSE "ok"

\* a path below View/<name_screen> can exist only while that directory exists
ExistsBelowView(dirs, name_screen) == name_screen \in dirs

\* remove_view.remove_view: rmtree(View/<name>), then os.remove of
\* View/<name>/Controller/components and of View/<name>/Model/<module>
RemoveView(dirs, name_screen) ==
    LET afterRmtree == dirs \ {name_screen}
    IN  [dirs |-> afterRmtree,
         ok |-> ExistsBelowView(afterRmtree, name_screen)]

\* remove_view.main on the tree t
RemoveMain(t, name_view, listing) ==
    LET v == RemoveValidate(t, name_view)
    IN  IF v = "ListdirFailed"
        THEN Unchanged(t, Outcome("remove", name_view, "crashed", v, FALSE, FALSE, {}))
        ELSE IF v # "ok"
        THEN Unchanged(t, Outcome("remove", name_view, "aborted", v, FALSE, FALSE, {}))
        ELSE LET module_name == ModuleNameOf(check_camel_case_name_project(name_view).list)
                 rm == RemoveView(t.viewDirs, name_view)
                 files == [t.projectFiles EXCEPT
                              !.kv = [d \in DOMAIN @ \ {name_view} |-> @[d]]]
                 upd == RemoveUpdateScreensData(t.screensPy, listing, name_view, module_name)
             IN  IF ~rm.ok
                 THEN Result(TRUE, rm.dirs, t.modelFiles, t.controllerFiles, t.screensPy, files,
                             Outcome("remove", name_view, "crashed", "FileNotFound",
                                     TRUE, FALSE, {}))
                 ELSE IF upd.ok
                 THEN Result(TRUE, rm.dirs, t.modelFiles, t.controllerFiles, upd.file, files,
                             Outcome("remove", name_view, "done", "none", TRUE, TRUE, {}))
                 ELSE Result(TRUE, rm.dirs, t.modelFiles, t.controllerFiles, t.screensPy, files,
                             Outcome("remove", name_view, "crashed", "NoImportLine",
                                     TRUE, FALSE, {}))

----------------------------------------------------------------------------
(* create_project.main *)

\* the entry create_screens_data appends to temp_screens_data
CreateEntry(name_screen, module_name) ==
    [key |-> CreateKey(module_name),
     model |-> name_screen \o ModelWord,
     controller |-> name_screen \o ControllerWord,
     view |-> name_screen \o ViewWord,
     kv |-> KvPath(name_screen, module_name)]

\* `for name in name_screen:` of create_project.main; st is the project built so far
RECURSIVE CreateLoop(_, _)
CreateLoop(names, st) ==
    IF names = <<>> THEN st
    ELSE LET name == Head(names)
             cc == check_camel_case_name_project(name)
         IN  IF ~Truthy(cc)
             THEN [st EXCEPT !.status = "aborted"]
             ELSE LET module_name == ModuleNameOf(cc.list)
                      written == [st EXCEPT
                          !.models = WriteModule(@, module_name, name),
                          !.ctrls = WriteModule(@, module_name, name),
                          !.imports = @ \o ImportLinesOf(module_name, name),
                          !.body = Append(@, CreateEntry(name, module_name))]
                  IN  IF name \in st.dirs
                      THEN [written EXCEPT !.status = "crashed"]
                      ELSE CreateLoop(Tail(names),
                                      [written EXCEPT
                                          !.dirs = @ \cup {name},
                                          !.kv = WriteKv(@, name, module_name)])

\* available_databases
AvailableDatabases == {"firebase", "restdb"}

\* the database modules of the Model directory of the MVC template
TemplateDatabaseFiles == {"database_firebase.py", "database_restdb.py"}

\* the screen key of `self.add_screen("login screen", first=True)` in temp_main
MainFirstScreen == <<"l", "o", "g", "i", "n", " ", "s", "c", "r", "e", "e", "n">>

\* check_databases without the os.rename: the chosen module keeps its name
check_databasesNoRename(files, name_database) ==
    LET other == IF name_database = "firebase" THEN "database_restdb.py"
                 ELSE "database_firebase.py"
        own == IF name_database = "firebase" THEN "database_firebase.py"
               ELSE "database_restdb.py"
    IN  [ok |-> other \in files /\ own \in files, files |-> files \ {other}]

\* check_databases: os.remove of the other provider's module, os.rename of the
\* chosen one to database.py
check_databases(files, name_database) ==
    LET other == IF name_database = "firebase" THEN "database_restdb.py"
                 ELSE "database_firebase.py"
        own == IF name_database = "firebase" THEN "database_firebase.py"
               ELSE "database_restdb.py"
    IN  IF other \in files /\ own \in files
        THEN [ok |-> TRUE, files |-> (files \ {other, own}) \cup {"database.py"}]
        ELSE [ok |-> FALSE, files |-> files \ {other}]

\* the two os.remove calls that end create_project.main when no database is used
RemoveDatabaseModules(files) ==
    [ok |-> TemplateDatabaseFiles \subseteq files,
     files |-> files \ TemplateDatabaseFiles]

\* create_project.main on the tree t
CreateMainDb(t, name_screen, use_responsive, name_database) ==
    LET out(status, error, mutated) ==
            [Outcome("create", <<>>, status, error, mutated, status = "done", {})
                EXCEPT !.names = name_screen, !.database = name_database]
    IN  IF name_database # "no" /\ name_database \notin AvailableDatabases
        THEN Unchanged(t, out("aborted", "Database", FALSE))
        ELSE IF \E i \in 1..Len(name_screen) : LastSix(name_screen[i]) # ScreenWord
        THEN Unchanged(t, out("aborted", "Naming", FALSE))
        ELSE IF t.projectExists
        THEN Unchanged(t, out("aborted", "Exists", FALSE))
        ELSE LET copied == [kv |-> t.projectFiles.kv, main |-> MainFirstScreen,
                            database |-> TemplateDatabaseFiles]
                 st == CreateLoop(name_screen,
                           [status |-> "ok", dirs |-> {}, models |-> t.modelFiles,
                            ctrls |-> t.controllerFiles, imports |-> <<>>,
                            body |-> <<>>, kv |-> copied.kv])
                 db == IF name_database # "no"
                       THEN check_databases(copied.database, name_database)
                       ELSE RemoveDatabaseModules(copied.database)
             IN  IF st.status # "ok"
                 THEN Result(TRUE, st.dirs, st.models, st.ctrls, t.screensPy,
                             [copied EXCEPT !.kv = st.kv],
                             out(st.status,
                                 IF st.status = "aborted" THEN "Naming" ELSE "FileExists",
                                 TRUE))
                 ELSE IF ~db.ok
                 THEN Result(TRUE, st.dirs \cup use_responsive, st.models, st.ctrls,
                             [exists |-> TRUE, comment |-> 1,
                              imports |-> st.imports, body |-> st.body],
                             [copied EXCEPT !.kv = st.kv, !.database = db.files],
                             out("crashed", "FileNotFound", TRUE))
                 ELSE Result(TRUE, st.dirs \cup use_responsive, st.models, st.ctrls,
                             [exists |-> TRUE, comment |-> 1,
                              imports |-> st.imports, body |-> st.body],
                             [copied EXCEPT !.kv = st.kv, !.database = db.files],
                             out("done", "none", TRUE))

\* create_project.main with the default --name_database no
CreateMain(t, name_screen, use_responsive) ==
    CreateMainDb(t, name_screen, use_responsive, "no")

----------------------------------------------------------------------------
(* The command line tool as a state machine *)

NoFiles == [m \in {} |-> <<>>]

NoProject ==
    [projectExists |-> FALSE, viewDirs |-> {}, modelFiles |-> NoFiles,
     controllerFiles |-> NoFiles, screensPy |-> NoFile, projectFiles |-> NoProjectFiles]

\* no name function has been evaluated on its own
NoCall ==
    [fn |-> "none", arg |-> <<>>, tokens |-> <<>>, ok |-> FALSE,
     module |-> <<>>, key |-> <<>>]

\* shorten_text has not been called
NoShorten ==
    [pc |-> "idle", text |-> <<>>, suffix |-> <<>>, measure |-> "none",
     lbl_width |-> 0, new_text |-> <<>>, t |-> 0, result |-> <<>>]

Apply(r) ==
    /\ projectExists' = r.projectExists
    /\ projectFiles' = r.projectFiles
    /\ viewDirs' = r.viewDirs
    /\ modelFiles' = r.modelFiles
    /\ controllerFiles' = r.controllerFiles
    /\ screensPy' = r.screensPy
    /\ last' = r.last
    /\ call' = call
    /\ shorten' = shorten

Holds(r) ==
    /\ projectExists = r.projectExists
    /\ projectFiles = r.projectFiles
    /\ viewDirs = r.viewDirs
    /\ modelFiles = r.modelFiles
    /\ controllerFiles = r.controllerFiles
    /\ screensPy = r.screensPy
    /\ last = r.last
    /\ call = NoCall
    /\ shorten = NoShorten

NameLists == UNION {[1..n -> Names] : n \in 1..MaxCreate}

ResponsiveSets == {R \in SUBSET Names : Cardinality(R) <= MaxResponsive}

\* os.listdir(View) as update_screens_data sees it: the entries that are not
\* directories are skipped by the scan wherever they stand, so they are listed
\* first; the directories follow in arbitrary order
Listings(dirs, file) ==
    LET files == CHOOSE o \in Orderings(ViewEntries({}, file)) : TRUE
    IN  {files \o o : o \in Orderings(ViewEntries(dirs, NoFile))}

\* m4k-addview <pattern> <directory> <name> [--use_responsive ...]
AddScreen ==
    /\ Len(screensPy.imports) + 3 <= MaxImportLines
    /\ \E name_view \in Names, use_responsive \in BOOLEAN :
        IF AddValidate(Tree, name_view) # "ok"
        THEN Apply(AddMain(Tree, name_view, use_responsive, <<>>))
        ELSE \E listing \in Listings(viewDirs \cup {name_view}, screensPy) :
                Apply(AddMain(Tree, name_view, use_responsive, listing))

\* m4k-removeview <pattern> <directory> <name>
RemoveScreen ==
    \E name_view \in Names :
        IF RemoveValidate(Tree, name_view) # "ok"
        THEN Apply(RemoveMain(Tree, name_view, <<>>))
        ELSE \E listing \in Listings(viewDirs \ {name_view}, screensPy) :
                Apply(RemoveMain(Tree, name_view, listing))

\* m4k-create <pattern> <directory> <name> ... [--name_screen ...] [--use_responsive ...]
\* On a path that exists create_project only reports "project already exists"
\* (create_project.py:782); the model explores it on a free path.
CreateProject ==
    /\ ~projectExists
    /\ \E name_screen \in NameLists, use_responsive \in ResponsiveSets :
        Apply(CreateMain(Tree, name_screen, use_responsive))

\* The life of one project path: create_project, addScreen and removeScreen
\* invocations in any order, starting with nothing at the path.
Init ==
    Holds(Unchanged(NoProject, Outcome("none", <<>>, "done", "none", FALSE, FALSE, {})))

Next == CreateProject \/ AddScreen \/ RemoveScreen

Spec == Init /\ [][Next]_vars

----------------------------------------------------------------------------
(* The registry synchroniser of remove_view called on its own:               *)
(* update_screens_data applied to a created project whose View/screens.py    *)
(* may have lost import lines to a hand edit.                                *)

MaxHandDeleted == 1   \* import lines deleted by hand from the created screens.py

\* s without the elements whose index is in D
RECURSIVE DropIndices(_, _)
DropIndices(s, D) ==
    IF s = <<>> THEN <<>>
    ELSE LET rest == DropIndices(SubSeq(s, 1, Len(s) - 1), D)
         IN  IF Len(s) \in D THEN rest ELSE Append(rest, s[Len(s)])

\* the names main() hands to update_screens_data: those that pass its checks
ResyncNames ==
    {n \in Names : LastSix(n) = ScreenWord /\ Truthy(check_camel_case_name_project(n))}

InitSync ==
    \E name_screen \in NameLists :
        LET r == CreateMain(NoProject, name_screen, {})
        IN  /\ r.last.status = "done"
            /\ \E D \in SUBSET (1..Len(r.screensPy.imports)) :
                /\ Cardinality(D) <= MaxHandDeleted
                /\ Holds([r EXCEPT !.screensPy.imports = DropIndices(@, D)])

\* remove_view.update_screens_data(name_view, module_name, path_to_project)
ResyncRemove ==
    \E name_view \in ResyncNames :
        \E listing \in Listings(viewDirs, screensPy) :
            LET module_name == ModuleNameOf(check_camel_case_name_project(name_view).list)
                upd == RemoveUpdateScreensData(screensPy, listing, name_view, module_name)
            IN  /\ screensPy' = upd.file
                /\ last' = Outcome("resync_remove", name_view,
                                   IF upd.ok THEN "done" ELSE "crashed",
                                   IF upd.ok THEN "none" ELSE "NoImportLine",
                                   upd.ok, upd.ok, {})
                /\ UNCHANGED <<projectExists, viewDirs, modelFiles, controllerFiles,
                             projectFiles, call, shorten>>

NextSync == ResyncRemove

SpecSync == InitSync /\ [][NextSync]_vars

\* addScreen invoked on a created project after a hand edit that may have
\* taken import lines and registry entries out of View/screens.py
InitAdd ==
    \E name_screen \in NameLists :
        LET r == CreateMain(NoProject, name_screen, {})
        IN  /\ r.last.status = "done"
            /\ \E D \in SUBSET (1..Len(r.screensPy.imports)),
                  B \in SUBSET (1..Len(r.screensPy.body)) :
                /\ Cardinality(D) <= MaxHandDeleted
                /\ Cardinality(B) <= MaxHandDeleted
                /\ Holds([r EXCEPT !.screensPy.imports = DropIndices(@, D),
                                   !.screensPy.body = DropIndices(@, B)])

NextAdd == AddScreen

SpecAdd == InitAdd /\ [][NextAdd]_vars

----------------------------------------------------------------------------
(* The name functions evaluated on their own: the tokenizer behind           *)
(* check_camel_case_name_project, and the module name and registry key that  *)
(* add_view derives from a screen name.                                      *)

MaxTextLen == 4   \* length of the generated names

TextAlphabet == {"A", "B", "a", "_"}

MainScreen == <<"M", "a", "i", "n">> \o ScreenWord

UserProfileScreen ==
    <<"U", "s", "e", "r", "P", "r", "o", "f", "i", "l", "e">> \o ScreenWord

NameInputs ==
    UNION {[1..n -> TextAlphabet] : n \in 0..MaxTextLen}
        \cup Names \cup {MainScreen, UserProfileScreen}

\* check_camel_case_name_project(name): the list returned, or False
CheckCamelCase ==
    \E name \in NameInputs :
        LET r == check_camel_case_name_project(name)
        IN  /\ call' = [fn |-> "check_camel_case_name_project", arg |-> name,
                        tokens |-> r.list, ok |-> r.isList,
                        module |-> <<>>, key |-> <<>>]
            /\ UNCHANGED <<projectExists, viewDirs, modelFiles, controllerFiles,
                           screensPy, projectFiles, last, shorten>>

\* the module name main() computes for a screen name that passes the camel
\* case check, and the key update_screens_data gives its directory
DeriveNames ==
    \E name \in NameInputs :
        LET r == check_camel_case_name_project(name)
        IN  /\ Truthy(r)
            /\ call' = [fn |-> "module_name", arg |-> name,
                        tokens |-> r.list, ok |-> TRUE,
                        module |-> ModuleNameOf(r.list),
                        key |-> ScanEntry(name).key]
            /\ UNCHANGED <<projectExists, viewDirs, modelFiles, controllerFiles,
                           screensPy, projectFiles, last, shorten>>

NextNames == CheckCamelCase \/ DeriveNames

SpecNames == Init /\ [][NextNames]_vars

----------------------------------------------------------------------------
(* libs.shorten_text: the text of a label is cut, word by word, until it    *)
(* fits the width of the label together with the suffix.                     *)

MaxShortenLen == 4    \* length of the text handed to shorten_text
MaxLblWidth == 8      \* largest lbl_width handed to shorten_text

ShortenTexts == UNION {[1..n -> {"a", " "}] : n \in 0..MaxShortenLen}

Suffixes == {<<>>, <<".">>}

LblWidths == -1..MaxLblWidth

Lines == {0, 1, 2}

\* the " more" that the loop adds to the measured string
MoreWord == <<" ", "m", "o", "r", "e">>

\* the width measures: one width per character, spaces without width, the
\* same width for every string, and a width that is not monotone in the string
Measures == {"mono", "ink", "flat", "kern"}

\* text_width(s)[0] of the measure lbl.get_cached_extents() returned
text_width(measure, s) ==
    CASE measure = "mono" -> Len(s)
      [] measure = "ink" -> Cardinality({i \in 1..Len(s) : s[i] # " "})
      [] measure = "flat" -> 6
      [] OTHER -> (3 * Len(s)) % 7

\* s.split(" ")
RECURSIVE SplitSpace(_)
SplitSpace(s) ==
    IF s = <<>> THEN << <<>> >>
    ELSE LET rest == SplitSpace(SubSeq(s, 1, Len(s) - 1))
             c == s[Len(s)]
         IN  IF c = " " THEN Append(rest, <<>>)
             ELSE [rest EXCEPT ![Len(rest)] = Append(@, c)]

\* new_text.split(" "); del new_text[-1]; " ".join(new_text)
DelLastWord(new_text) ==
    LET words == SplitSpace(new_text)
    IN  Join(SubSeq(words, 1, Len(words) - 1), <<" ">>)

\* shorten_text up to its loop
ShortenEnter(text, lbl_width, lines, suffix, measure) ==
    LET width == lbl_width * lines
        s == [pc |-> "loop", text |-> text, suffix |-> suffix, measure |-> measure,
              lbl_width |-> width, new_text |-> text, t |-> 0, result |-> <<>>]
    IN  IF width <= 0 THEN [s EXCEPT !.pc = "done"] ELSE s

\* one test of the loop condition without the assignment to t
ShortenIterationKeepT(s) ==
    LET measured(x) == text_width(s.measure, x \o s.suffix \o MoreWord)
        shorter == DelLastWord(s.new_text)
    IN  IF ~(measured(s.new_text) > s.lbl_width)
        THEN [s EXCEPT !.pc = "done", !.result = s.new_text \o s.suffix]
        ELSE IF measured(shorter) = s.t
        THEN [s EXCEPT !.pc = "done", !.new_text = shorter, !.result = <<>>]
        ELSE [s EXCEPT !.new_text = shorter]

\* one test of the loop condition of shorten_text and, when it holds, one
\* pass through the body
ShortenIteration(s) ==
    LET measured(x) == text_width(s.measure, x \o s.suffix \o MoreWord)
        shorter == DelLastWord(s.new_text)
    IN  IF ~(measured(s.new_text) > s.lbl_width)
        THEN [s EXCEPT !.pc = "done", !.result = s.new_text \o s.suffix]
        ELSE IF measured(shorter) = s.t
        THEN [s EXCEPT !.pc = "done", !.new_text = shorter, !.result = <<>>]
        ELSE [s EXCEPT !.new_text = shorter, !.t = measured(shorter)]

\* shorten_text(text, lbl_width, lines, suffix) is called
ShortenCall ==
    /\ shorten.pc = "idle"
    /\ \E text \in ShortenTexts, lbl_width \in LblWidths, lines \in Lines,
          suffix \in Suffixes, measure \in Measures :
        shorten' = ShortenEnter(text, lbl_width, lines, suffix, measure)
    /\ UNCHANGED <<projectExists, viewDirs, modelFiles, controllerFiles,
                   screensPy, projectFiles, last, call>>

\* the running call goes once through `while ...:`
ShortenLoop ==
    /\ shorten.pc = "loop"
    /\ shorten' = ShortenIteration(shorten)
    /\ UNCHANGED <<projectExists, viewDirs, modelFiles, controllerFiles,
                   screensPy, projectFiles, last, call>>

NextShorten == ShortenCall \/ ShortenLoop

SpecShorten == Init /\ [][NextShorten]_vars

\* a call that has entered the loop keeps executing
SpecShortenLive == SpecShorten /\ WF_vars(ShortenLoop)

----------------------------------------------------------------------------
(* create_project with its options, followed by addScreen: screen names with *)
(* an underscore, the default screen list and the database providers.        *)

A_Screen == <<"A", "_">> \o ScreenWord

LoginScreen == <<"L", "o", "g", "i", "n">> \o ScreenWord

CreateNames == {MainScreen, LoginScreen, A_Screen, <<"A">> \o ScreenWord}

CreateNameLists == UNION {[1..n -> CreateNames] : n \in 1..MaxCreate}

\* values of --name_database: the default, the two providers, and another word
Databases == {"no", "firebase", "restdb", "sqlite"}

\* m4k-create ... [--name_screen ...] [--name_database ...]
CreateWithOptions ==
    /\ ~projectExists
    /\ \E name_screen \in CreateNameLists, name_database \in Databases :
        Apply(CreateMainDb(Tree, name_screen, {}, name_database))

NextCreate == CreateWithOptions \/ AddScreen

SpecCreate == Init /\ [][NextCreate]_vars

----------------------------------------------------------------------------
(* Vocabulary of the properties *)

\* the invocation recorded in l got past every check of main()
PassedValidation(l) ==
    /\ l.op \in {"add", "remove"}
    /\ l.status # "aborted"
    /\ l.error # "ListdirFailed"

\* a directory name that qualifies as a screen: >= 2 tokens, the last one Screen
IsScreenDir(d) ==
    LET toks == Tokenize(d)
    IN  Len(toks) >= 2 /\ toks[Len(toks)] = ScreenWord

ScreenDirs == {d \in viewDirs : IsScreenDir(d)}

\* the screen name an entry of the registry body was written for
EntryScreen(e) == SubSeq(e.view, 1, Len(e.view) - Len(ViewWord))

BodyKeys(file) == {e.key : e \in BodySet(file)}

\* number of occurrences of x in the sequence s
Count(s, x) == Cardinality({i \in 1..Len(s) : s[i] = x})

\* the three import lines that belong to the screen `name`
ScreenImports(name) ==
    LET lines == ImportLinesOf(ModuleNameOf(Tokenize(name)), name)
    IN  {lines[k] : k \in 1..3}

\* the request (op, name) has a validation failure in the tree t
RequestInvalid(t, op, name) ==
    \/ ~t.projectExists
    \/ ~EndsWith(name, ScreenWord)
    \/ Len(Tokenize(name)) < 2
    \/ op = "add" /\ name \in ViewNames(t.viewDirs, t.screensPy)
    \/ op = "remove" /\ name \notin ViewNames(t.viewDirs, t.screensPy)

----------------------------------------------------------------------------
(* Properties *)

\* C1: after removeScreen(X) got past validation, the registry body holds no
\* entry for X and exactly one entry for every remaining screen directory.
C1_RemoveRegistryMatchesTree ==
    (last.op = "remove" /\ PassedValidation(last)) =>
        /\ \A e \in BodySet(screensPy) : EntryScreen(e) # last.name
        /\ {EntryScreen(e) : e \in BodySet(screensPy)} = ScreenDirs
        /\ Len(screensPy.body) = Cardinality(ScreenDirs)

\* C2: after a successful addScreen(X) the keys of the registry body are exactly
\* the screen keys of the View subdirectories with >= 2 tokens and last token
\* Screen, and the key of X is among them.
C2_AddRegistryKeys ==
    (last.op = "add" /\ last.status = "done") =>
        /\ BodyKeys(screensPy) = {ScanKey(Tokenize(d)) : d \in ScreenDirs}
        /\ ScanKey(Tokenize(last.name)) \in BodyKeys(screensPy)

C2_Witness ==
    /\ last.op = "add" /\ last.status = "done"
    /\ Cardinality(ScreenDirs) >= 2
    /\ \E d \in ScreenDirs : Len(Tokenize(d)) = 3
    /\ viewDirs \ ScreenDirs # {}

\* C3: a removeScreen invocation that passed validation has mutated the
\* directory tree, then resynchronised the registry, and reached Done.
C3_RemoveRunsToDone ==
    (last.op = "remove" /\ PassedValidation(last)) =>
        last.mutated /\ last.resynced /\ last.status = "done"

\* C4: an addScreen or removeScreen request with a validation failure (project
\* missing, no Screen suffix, fewer than 2 tokens, duplicate on add, missing on
\* remove) leaves the project tree and View/screens.py as they were.
C4_ValidationFailureLeavesTree ==
    [][(last'.op \in {"add", "remove"} /\ RequestInvalid(Tree, last'.op, last'.name))
            => (tree' = tree /\ ~PassedValidation(last'))]_vars

C4_Witness ==
    /\ last.op = "add" /\ last.status = "aborted" /\ last.error = "Naming"
    /\ EndsWith(last.name, ScreenWord)
    /\ screensPy.exists /\ viewDirs # {}

\* C5: when create_project reports a screen-name validation error, it has not
\* created or modified anything on the filesystem.
C5_CreateValidatesBeforeMutation ==
    [][(last'.op = "create" /\ last'.error = "Naming") => tree' = tree]_vars

\* C6: addScreen(X) followed by removeScreen(X) leaves the registry body with
\* exactly the entries it had before the add.
C6_AddRemoveRestoresBody ==
    [][(/\ last.op = "add" /\ last.status = "done"
        /\ last'.op = "remove" /\ last'.name = last.name
        /\ PassedValidation(last'))
            => BodySet(screensPy') = last.before]_vars

\* C7: two distinct names that pass the validation of addScreen/create_project
\* never derive the same module name nor the same screen key.
C7_DistinctNamesDistinctModules ==
    \A d1, d2 \in {d \in viewDirs :
                     LastSix(d) = ScreenWord /\ Truthy(check_camel_case_name_project(d))} :
        d1 # d2 =>
            /\ ModuleNameOf(Tokenize(d1)) # ModuleNameOf(Tokenize(d2))
            /\ ScanKey(Tokenize(d1)) # ScanKey(Tokenize(d2))

\* C8: after each operation of the tool the import list holds exactly the three
\* import lines of every screen of the registry body, each once, and no other.
C8_ImportsMatchBody ==
    screensPy.exists =>
        LET expected == UNION {ScreenImports(EntryScreen(e)) : e \in BodySet(screensPy)}
        IN  /\ \A l \in expected : Count(screensPy.imports, l) = 1
            /\ \A i \in 1..Len(screensPy.imports) : screensPy.imports[i] \in expected

\* C9: when the resynchronisation of removeScreen does not find one of the
\* three import lines of the removed screen, it fails and View/screens.py is
\* left unchanged.
C9_MissingImportLeavesFile ==
    [][(/\ last'.op = "resync_remove"
        /\ screensPy.exists
        /\ \E l \in ScreenImports(last'.name) : Count(screensPy.imports, l) = 0)
            => (last'.status = "crashed" /\ screensPy' = screensPy)]_vars

C9_Witness ==
    /\ last.op = "resync_remove" /\ last.status = "crashed"
    /\ screensPy.exists
    /\ \E l \in ScreenImports(last.name) : Count(screensPy.imports, l) = 0
    /\ \E l \in ScreenImports(last.name) : Count(screensPy.imports, l) = 1

\* C10: a name that addScreen or removeScreen accepts ends with Screen and
\* tokenizes to at least 2 tokens, the last of which is exactly Screen.
C10_AcceptedNames ==
    PassedValidation(last) =>
        /\ EndsWith(last.name, ScreenWord)
        /\ Len(Tokenize(last.name)) >= 2
        /\ Tokenize(last.name)[Len(Tokenize(last.name))] = ScreenWord

C10_Witness ==
    /\ PassedValidation(last)
    /\ last.op = "remove"
    /\ Join(Tokenize(last.name), <<>>) # last.name

----------------------------------------------------------------------------
(* The name functions *)

\* one upper-case letter followed by characters that are not upper-case
IsRun(t) ==
    /\ t # <<>>
    /\ t[1] \in UpperCase
    /\ \A i \in 2..Len(t) : t[i] \notin UpperCase

UpperPositions(s) == {i \in 1..Len(s) : s[i] \in UpperCase}

\* s from its first upper-case letter on
FromFirstUpper(s) ==
    IF UpperPositions(s) = {} THEN <<>>
    ELSE LET first == CHOOSE i \in UpperPositions(s) : \A j \in UpperPositions(s) : i <= j
         IN  SubSeq(s, first, Len(s))

RECURSIVE Concat(_)
Concat(parts) == IF parts = <<>> THEN <<>> ELSE Head(parts) \o Concat(Tail(parts))

\* C11: check_camel_case_name_project returns the maximal runs of one
\* upper-case letter followed by characters that are not upper-case, in the
\* order in which they stand in the name and without overlap (MainScreen
\* gives Main, Screen; UserProfileScreen gives User, Profile, Screen), and it
\* returns the failure value exactly when the name holds one such run (Screen).
C11_TokenizeRuns ==
    call.fn = "check_camel_case_name_project" =>
        /\ call.ok <=> Cardinality(UpperPositions(call.arg)) # 1
        /\ call.ok =>
            /\ Len(call.tokens) = Cardinality(UpperPositions(call.arg))
            /\ \A k \in 1..Len(call.tokens) : IsRun(call.tokens[k])
            /\ Concat(call.tokens) = FromFirstUpper(call.arg)
        /\ call.arg = MainScreen =>
            call.ok /\ call.tokens = << <<"M", "a", "i", "n">>, ScreenWord >>
        /\ call.arg = UserProfileScreen =>
            call.ok /\ call.tokens = << <<"U", "s", "e", "r">>,
                                        <<"P", "r", "o", "f", "i", "l", "e">>,
                                        ScreenWord >>
        /\ call.arg = ScreenWord => ~call.ok

C11_Witness ==
    /\ call.fn = "check_camel_case_name_project"
    /\ call.ok
    /\ Len(call.tokens) = 2
    /\ Concat(call.tokens) # call.arg

\* where the k-th token starts in the tokens joined by a one-character separator
RECURSIVE Offset(_, _)
Offset(tokens, k) ==
    IF k = 1 THEN 0 ELSE Offset(tokens, k - 1) + Len(tokens[k - 1]) + 1

\* text is the lower-cased tokens, every one of them, with sep between neighbours
JoinedLower(text, tokens, sep) ==
    /\ tokens # <<>>
    /\ Len(text) = Offset(tokens, Len(tokens)) + Len(tokens[Len(tokens)])
    /\ \A k \in 1..Len(tokens) :
        /\ \A i \in 1..Len(tokens[k]) :
               text[Offset(tokens, k) + i] = LowerChar(tokens[k][i])
        /\ k > 1 => text[Offset(tokens, k)] = sep

Str_user_profile == <<"u", "s", "e", "r", "_", "p", "r", "o", "f", "i", "l", "e">>

Str_screen == <<"s", "c", "r", "e", "e", "n">>

\* C12: the module name and the registry key of a screen come from the whole
\* token list, the trailing Screen included: the module name is the
\* lower-cased tokens joined by "_", the key is the tokens joined by spaces
\* and lower-cased.  UserProfileScreen has the key "user profile screen".
C12_NamesFromAllTokens ==
    call.fn = "module_name" =>
        /\ JoinedLower(call.module, call.tokens, "_")
        /\ JoinedLower(call.key, call.tokens, " ")
        /\ call.tokens[Len(call.tokens)] = ScreenWord =>
               EndsWith(call.key, <<" ">> \o Str_screen)
        /\ call.arg = UserProfileScreen =>
               call.key = Replace(Str_user_profile, "_", " ") \o <<" ">> \o Str_screen

C12_Witness ==
    /\ call.fn = "module_name"
    /\ call.arg = UserProfileScreen
    /\ Len(call.tokens) = 3

\* C13 as stated: the module name of UserProfileScreen is user_profile, without
\* the screen token.
C13_ModuleNameWithoutScreenToken ==
    (call.fn = "module_name" /\ call.arg = UserProfileScreen) =>
        call.module = Str_user_profile

\* C13 amended: the module name of UserProfileScreen is user_profile_screen,
\* and the module name of every accepted name that ends in Screen ends in
\* _screen.
C13_ModuleNameCarriesScreenToken ==
    call.fn = "module_name" =>
        /\ call.arg = UserProfileScreen =>
               call.module = Str_user_profile \o <<"_">> \o Str_screen
        /\ LastSix(call.arg) = ScreenWord =>
               EndsWith(call.module, <<"_">> \o Str_screen)

C13_Witness ==
    /\ call.fn = "module_name"
    /\ call.arg = UserProfileScreen
    /\ call.module # Str_user_profile

----------------------------------------------------------------------------
(* The registry after addScreen and removeScreen *)

\* the entries of View that the scan must skip: files, and directories whose
\* name has fewer than two tokens or a last token other than Screen
SkippedNames ==
    {e.name : e \in {x \in ViewEntries(viewDirs, screensPy) :
                        ~x.isdir \/ ~IsScreenDir(x.name)}}

\* C14: after any addScreen or removeScreen, no entry of the registry body is
\* derived from an entry of View that is not a directory, that has fewer than
\* two tokens, or whose last token is not Screen.
C14_SkippedEntriesNotInBody ==
    last.op \in {"add", "remove"} =>
        \A e \in BodySet(screensPy) :
            /\ EntryScreen(e) \notin SkippedNames
            /\ \A n \in SkippedNames : e.kv # KvPath(n, Lower(Join(Tokenize(n), <<"_">>)))

C14_Witness ==
    /\ last.op = "add"
    /\ last.status = "done"
    /\ \E d \in viewDirs : ~IsScreenDir(d)
    /\ Len(screensPy.body) > 1

\* C15: a regenerated registry body has one entry for each valid screen
\* directory of View, the keys of the entries are pairwise distinct, and the kv
\* of each entry is ./View/<ScreenName>/<module_name>.kv.
C15_RegeneratedBodyDistinctKeys ==
    (last.op = "add" /\ last.status = "done") =>
        /\ Len(screensPy.body) = Cardinality(ScreenDirs)
        /\ Cardinality(BodyKeys(screensPy)) = Cardinality(ScreenDirs)
        /\ \A e \in BodySet(screensPy) :
               e.kv = <<".", "/">> \o ViewWord \o <<"/">> \o EntryScreen(e) \o <<"/">>
                         \o ModuleNameOf(Tokenize(EntryScreen(e))) \o <<".", "k", "v">>

\* C16: when addScreen of a new valid name follows a create_project that made
\* k screens, the registry body has k + 1 entries and the import list has
\* 3 * (k + 1) import lines under the comment written once.
C16_AddAfterCreateCounts ==
    [][(/\ last.op = "create" /\ last.status = "done"
        /\ last'.op = "add" /\ last'.status = "done")
            => /\ Len(screensPy'.body) = Len(last.names) + 1
               /\ Len(screensPy'.imports) = 3 * (Len(last.names) + 1)
               /\ screensPy'.comment = 1]_vars

\* screens.py contents that differ from file in the registry body only
OtherBodies(file) ==
    {[file EXCEPT !.body = b] :
        b \in {<<>>, file.body \o file.body, <<ScanEntry(MainScreen)>>} \ {file.body}}

\* the elements of the finite set S in some order
RECURSIVE SomeOrder(_)
SomeOrder(S) ==
    IF S = {} THEN <<>>
    ELSE LET x == CHOOSE y \in S : TRUE
         IN  <<x>> \o SomeOrder(S \ {x})

\* a listing of View (dirs, file) that gives the entries of body in their order
ListingOf(body, dirs, file) ==
    LET scanned == [i \in 1..Len(body) |-> [name |-> EntryScreen(body[i]), isdir |-> TRUE]]
    IN  SomeOrder({e \in ViewEntries(dirs, file) : ~e.isdir \/ ~IsScreenDir(e.name)})
            \o scanned

\* C17: the registry body that the resynchronisation of addScreen writes is
\* the same for every previous content of View/screens.py: had the file held
\* another body, with the same View tree, the same listing and the same added
\* screen, the body written would be identical.
C17_BodyIndependentOfPreviousFile ==
    [][(last'.op = "add" /\ last'.status = "done") =>
        LET listing == ListingOf(screensPy'.body, viewDirs', screensPy)
            module_name == ModuleNameOf(Tokenize(last'.name))
        IN  \A other \in OtherBodies(screensPy) :
                AddUpdateScreensData(other, listing, last'.name, module_name).file.body
                    = screensPy'.body]_vars

C17_Witness ==
    /\ last.op = "add"
    /\ last.status = "done"
    /\ last.before # {}
    /\ \E d \in ScreenDirs \ {last.name} :
           \A e \in last.before : EntryScreen(e) # d

\* C18: addScreen is rejected when an entry with exactly the name of the new
\* screen exists under View, removeScreen is rejected when no entry has the
\* name of the screen to remove, and both are rejected when the project path
\* does not exist; a rejected request changes nothing.
C18_Rejections ==
    [][/\ (last'.op \in {"add", "remove"} /\ ~projectExists) =>
            /\ last'.status = "aborted" /\ last'.error = "ProjectNotFound"
            /\ tree' = tree
       /\ (/\ last'.op = "add" /\ projectExists
           /\ last'.name \in ViewNames(viewDirs, screensPy)) =>
            /\ last'.status = "aborted" /\ last'.error \in {"Duplicate", "Naming"}
            /\ EndsWith(last'.name, ScreenWord) => last'.error = "Duplicate"
            /\ tree' = tree
       /\ (/\ last'.op = "remove" /\ projectExists
           /\ last'.name \notin ViewNames(viewDirs, screensPy)) =>
            /\ last'.status \in {"aborted", "crashed"}
            /\ last'.error \in {"NotFound", "Naming", "ListdirFailed"}
            /\ (EndsWith(last'.name, ScreenWord) /\ ViewExists(viewDirs, screensPy))
                   => (last'.status = "aborted" /\ last'.error = "NotFound")
            /\ tree' = tree]_vars

C18_Witness ==
    /\ last.op = "add"
    /\ last.status = "aborted"
    /\ last.error = "Duplicate"
    /\ last.name \in viewDirs

\* C19: the resynchronisation of addScreen keeps every import line that was
\* in View/screens.py, in the same order, and appends exactly three lines for
\* the new screen: its Model line, its Controller line, its View line.
C19_AddKeepsImportsAppendsThree ==
    [][(last'.op = "add" /\ last'.status = "done") =>
        LET name == last'.name
            module == Lower(Join(Tokenize(name), <<"_">>))
        IN  /\ Len(screensPy'.imports) = Len(screensPy.imports) + 3
            /\ SubSeq(screensPy'.imports, 1, Len(screensPy.imports)) = screensPy.imports
            /\ SubSeq(screensPy'.imports, Len(screensPy.imports) + 1,
                      Len(screensPy.imports) + 3)
                 = << [pkg |-> ModelWord, path |-> module, cls |-> name \o ModelWord],
                      [pkg |-> ControllerWord, path |-> module,
                       cls |-> name \o ControllerWord],
                      [pkg |-> ViewWord, path |-> name \o <<".">> \o module,
                       cls |-> name \o ViewWord] >>]_vars

C19_Witness ==
    /\ last.op = "add"
    /\ last.status = "done"
    /\ Len(screensPy.imports) > 3
    /\ Len(screensPy.imports) % 3 # 0

\* the sequence s without the elements that are in the set S
Without(s, S) == SelectSeq(s, LAMBDA x : x \notin S)

\* C20: removeScreen takes exactly the three import lines of the removed screen
\* out of the import list and leaves every other line where it was, in order;
\* afterwards no import line of the removed screen remains.
C20_RemoveDropsThreeImports ==
    [][(last'.op = "remove" /\ PassedValidation(last')) =>
        /\ screensPy'.imports = Without(screensPy.imports, ScreenImports(last'.name))
        /\ Len(screensPy'.imports) = Len(screensPy.imports) - 3
        /\ \A l \in ScreenImports(last'.name) : Count(screensPy'.imports, l) = 0]_vars

----------------------------------------------------------------------------
(* The generated files *)

\* C21: after every resynchronisation of View/screens.py, however many came
\* before it, the file starts with the explanatory comment and holds it once.
C21_CommentOnce ==
    (last.resynced /\ last.op \in {"add", "remove"}) =>
        /\ screensPy.comment = 1
        /\ \A i \in 1..Len(screensPy.imports) : screensPy.imports[i] # CommentLine

C21_Witness ==
    /\ last.op = "add"
    /\ last.resynced
    /\ Len(screensPy.imports) >= 9
    /\ screensPy.comment = 1

\* the files f without the module m
WithoutModule(f, m) == [x \in DOMAIN f \ {m} |-> f[x]]

\* C22: when removeScreen(X) has run, View/X, Controller/<module_name>.py and
\* Model/<module_name>.py of X are gone and no file of another screen is.
C22_RemoveDeletesScreenFiles ==
    [][(last'.op = "remove" /\ PassedValidation(last')) =>
        LET module_name == Lower(Join(Tokenize(last'.name), <<"_">>))
        IN  /\ viewDirs' = viewDirs \ {last'.name}
            /\ modelFiles' = WithoutModule(modelFiles, module_name)
            /\ controllerFiles' = WithoutModule(controllerFiles, module_name)
            /\ projectFiles'.kv = WithoutModule(projectFiles.kv, last'.name)]_vars

\* C23: a successful addScreen(X) leaves the Model module, the Controller
\* module and the View directory of every screen that existed before as they
\* were.
C23_AddLeavesOtherScreens ==
    [][(last'.op = "add" /\ last'.status = "done") =>
        /\ viewDirs \subseteq viewDirs'
        /\ \A m \in DOMAIN modelFiles :
               m \in DOMAIN modelFiles' /\ modelFiles'[m] = modelFiles[m]
        /\ \A m \in DOMAIN controllerFiles :
               m \in DOMAIN controllerFiles' /\ controllerFiles'[m] = controllerFiles[m]
        /\ \A d \in DOMAIN projectFiles.kv :
               d \in DOMAIN projectFiles'.kv /\ projectFiles'.kv[d] = projectFiles.kv[d]]_vars

\* C24: the registry entries create_project writes for its screen names (key,
\* model, controller and view class, kv path) are the entries that the
\* resynchronisation derives by scanning the View directories made for them.
C24_CreateEntriesEqualScanEntries ==
    [][(/\ last.op = "create" /\ last.status = "done"
        /\ last'.op = "add" /\ last'.status = "done")
            => BodySet(screensPy) \subseteq BodySet(screensPy')]_vars

\* C26: the name written into the kv file of a screen made by create_project or
\* addScreen is the key under which the registry body lists that screen.
C26_KvNameIsRegistryKey ==
    \A e \in BodySet(screensPy) :
        EntryScreen(e) \in DOMAIN projectFiles.kv =>
            e.key = projectFiles.kv[EntryScreen(e)]

\* C27: after create_project the key that main.py loads first is a key of the
\* registry, also for the default screen list MainScreen.
C27_FirstScreenInRegistry ==
    (last.op = "create" /\ last.status = "done") =>
        projectFiles.main \in BodyKeys(screensPy)

\* C25: when create_project has completed, the registry body has exactly one
\* entry for each requested screen name, in argument order, and the screens
\* of these entries are exactly the screen directories under View.
C25_CreateBodyMatchesNamesAndDirs ==
    (last.op = "create" /\ last.status = "done") =>
        /\ Len(screensPy.body) = Len(last.names)
        /\ \A i \in 1..Len(last.names) : EntryScreen(screensPy.body[i]) = last.names[i]
        /\ {EntryScreen(e) : e \in BodySet(screensPy)} = ScreenDirs

\* C28: when create_project has completed, Model/database.py exists exactly
\* when firebase or restdb was selected and neither database_firebase.py nor
\* database_restdb.py remains; every addScreen that follows infers the
\* database mode that was chosen at creation.
C28_DatabaseModeSurvivesCreate ==
    [][/\ (last'.op = "create" /\ last'.status = "done") =>
              /\ "database.py" \in projectFiles'.database
                     <=> last'.database \in AvailableDatabases
              /\ projectFiles'.database \cap TemplateDatabaseFiles = {}
       /\ (last.op = "create" /\ last.status = "done" /\ PassedValidation(last')) =>
              (last'.database = "yes" <=> last.database \in AvailableDatabases)
       /\ (PassedValidation(last) /\ PassedValidation(last')
              /\ last.database = "yes") => last'.database = "yes"]_vars

C28_Witness ==
    /\ last.op = "add"
    /\ last.status = "done"
    /\ last.database = "yes"
    /\ "database.py" \in projectFiles.database

\* p is made of leading words of text: it is empty, or it is a prefix of
\* text that ends where text ends or right before a space
IsWordPrefix(p, text) ==
    \/ p = <<>>
    \/ /\ Len(p) <= Len(text)
       /\ p = SubSeq(text, 1, Len(p))
       /\ Len(p) = Len(text) \/ text[Len(p) + 1] = " "

\* b is a without its last word: without what follows the last space and
\* without that space, or nothing when a has no space
IsWithoutLastWord(a, b) ==
    IF \E i \in 1..Len(a) : a[i] = " "
    THEN /\ Len(b) < Len(a)
         /\ b = SubSeq(a, 1, Len(b))
         /\ a[Len(b) + 1] = " "
         /\ \A i \in (Len(b) + 2)..Len(a) : a[i] # " "
    ELSE b = <<>>

\* C29: shorten_text terminates for every text, label width, line count,
\* suffix and width measure: every pass through the loop removes the last
\* word of the text or returns, and returns the empty string when the
\* measured width is the one measured before; the result is empty or
\* leading words of the text followed by the suffix.
C29_ShortenTerminates ==
    /\ [][shorten.pc = "loop" =>
            /\ \/ shorten'.pc = "done"
               \/ /\ shorten'.pc = "loop"
                  /\ IsWithoutLastWord(shorten.new_text, shorten'.new_text)
            /\ (/\ text_width(shorten.measure,
                              shorten.new_text \o shorten.suffix \o MoreWord)
                       > shorten.lbl_width
                /\ text_width(shorten.measure,
                              shorten'.new_text \o shorten.suffix \o MoreWord)
                       = shorten.t)
                   => (shorten'.pc = "done" /\ shorten'.result = <<>>)]_vars
    /\ [](shorten.pc = "done" =>
            \/ shorten.result = <<>>
            \/ \E n \in 0..Len(shorten.text) :
                /\ IsWordPrefix(SubSeq(shorten.text, 1, n), shorten.text)
                /\ shorten.result = SubSeq(shorten.text, 1, n) \o shorten.suffix)
    /\ (shorten.pc = "loop") ~> (shorten.pc = "done")

C29_Witness ==
    /\ shorten.pc = "done"
    /\ shorten.result = shorten.new_text \o shorten.suffix
    /\ shorten.new_text # <<>>
    /\ Len(shorten.new_text) < Len(shorten.text)

====
